---- MODULE Spec2Model ----
(***************************************************************************)
(* A model of the natural-language-to-SQL assistant: the query generation  *)
(* services (GeminiService, OpenAIService), the safety gate                *)
(* (validateQuerySafety), the schema introspection (processSchemaRequest,  *)
(* buildSchema) and the handlers of /api/schema, /api/generate-query and   *)
(* /api/execute-query, among them the server version that regenerates a    *)
(* failed query once and executes the regenerated query.                   *)
(*                                                                         *)
(* One behaviour of Spec is the handling of one HTTP request.  The         *)
(* database and the LLM provider are black boxes whose outcomes are chosen *)
(* nondeterministically at each call.  PromptSpec builds the prompt that   *)
(* generateQuery sends to the provider (generatePromptTemplate,            *)
(* analyzeError, formatTableSchema).  UploadSpec interleaves the handlers  *)
(* of /api/upload-document with a generate-query request that reads        *)
(* app.locals.referenceText.                                               *)
(***************************************************************************)
EXTENDS Integers, Sequences, FiniteSets, TLC

VARIABLES
  server,       \* the server source that handles the request
  aiService,    \* the query generation service the server constructed
  allowUnsafe,  \* process.env.ALLOW_UNSAFE_QUERIES
  req,          \* the request: its endpoint and the fields of req.body
  pc,           \* the handler's position (its next await)
  pool,         \* the database pool of this request
  queryError,   \* the error caught from the first execution
  regenerated,  \* the value regenerateQuery resolved to
  tables,       \* the table names getTables resolved to
  builtSchema,  \* the array `schema` that buildSchema fills
  calls,        \* the calls made to the external collaborators, in order
  res,          \* the calls of res.json, in order: Express sends the first
                \* and refuses any other (ERR_HTTP_HEADERS_SENT)
  locals,       \* app.locals.referenceText, shared by every request
  uploads,      \* the POST /api/upload-document requests, in order of arrival
  args,         \* the arguments of a call that builds a prompt
  prompt        \* the prompt built from args

vars ==
  <<server, aiService, allowUnsafe, req, pc, pool, queryError, regenerated,
    tables, builtSchema, calls, res, locals, uploads, args, prompt>>

----------------------------------------------------------------------------
(* JavaScript values.  A string is the sequence of its characters; an error *)
(* message is the sequence of the fragments it is concatenated from.        *)

Undefined == [t |-> "undefined"]

Str(chars) == [t |-> "string", s |-> chars]

Bool(b) == [t |-> "boolean", b |-> b]

Num(n) == [t |-> "number", n |-> n]

Arr(elems) == [t |-> "array", a |-> elems]

Obj(fields) == [t |-> "object", o |-> fields]

\* ToBoolean: undefined, "", false and 0 are falsy; arrays and objects are truthy
Truthy(v) ==
  CASE v.t = "undefined" -> FALSE
    [] v.t = "string" -> Len(v.s) > 0
    [] v.t = "boolean" -> v.b
    [] v.t = "number" -> v.n # 0
    [] OTHER -> TRUE

Range(seq) == {seq[i] : i \in 1..Len(seq)}

LowerCase == <<"a","b","c","d","e","f","g","h","i","j","k","l","m",
               "n","o","p","q","r","s","t","u","v","w","x","y","z">>

UpperCase == <<"A","B","C","D","E","F","G","H","I","J","K","L","M",
               "N","O","P","Q","R","S","T","U","V","W","X","Y","Z">>

Digits == {"0","1","2","3","4","5","6","7","8","9"}

\* the case folding of the i flag
ToUpper(c) ==
  IF c \in Range(LowerCase)
    THEN UpperCase[CHOOSE i \in 1..Len(LowerCase) : LowerCase[i] = c]
    ELSE c

\* \w of a regular expression
IsWordChar(c) == c \in Range(LowerCase) \cup Range(UpperCase) \cup Digits \cup {"_"}

IsWordAt(text, i) == i >= 1 /\ i <= Len(text) /\ IsWordChar(text[i])

\* \b between positions i-1 and i
WordBoundary(text, i) == IsWordAt(text, i - 1) # IsWordAt(text, i)

IsSpace(c) == c \in {" ", "\n", "\t"}

\* String.prototype.trim
RECURSIVE TrimStart(_)
TrimStart(text) ==
  IF Len(text) > 0 /\ IsSpace(Head(text)) THEN TrimStart(Tail(text)) ELSE text

RECURSIVE TrimEnd(_)
TrimEnd(text) ==
  IF Len(text) > 0 /\ IsSpace(text[Len(text)])
    THEN TrimEnd(SubSeq(text, 1, Len(text) - 1))
    ELSE text

Trim(text) == TrimEnd(TrimStart(text))

----------------------------------------------------------------------------
(* The static unsafe-operation check of the generation services.            *)

unsafePatterns ==
  << <<"D","R","O","P">>,
     <<"T","R","U","N","C","A","T","E">>,
     <<"A","L","T","E","R">>,
     <<"D","E","L","E","T","E">>,
     <<"U","P","D","A","T","E">> >>

\* /\bKEYWORD\b/i.test(sql)
PatternTest(keyword, sql) ==
  \E i \in 1..Len(sql) :
    /\ i + Len(keyword) - 1 <= Len(sql)
    /\ \A j \in 1..Len(keyword) : ToUpper(sql[i + j - 1]) = keyword[j]
    /\ WordBoundary(sql, i)
    /\ WordBoundary(sql, i + Len(keyword))

checkUnsafeOperations(sql) ==
  \E k \in 1..Len(unsafePatterns) : PatternTest(unsafePatterns[k], sql)

----------------------------------------------------------------------------
(* The query generation services.  A function that throws is modelled by   *)
(* the value it results in: [ok |-> FALSE, error |-> message], or          *)
(* [ok |-> TRUE, value |-> v].                                             *)

Threw(message) == [ok |-> FALSE, error |-> message]

Returned(v) == [ok |-> TRUE, value |-> v]

GeminiService == "GeminiService"          \* db.service.ts, class GeminiService

OpenAIService == "OpenAIService"          \* db.service.ts, class OpenAIService

GeminiServiceV1 == "GeminiServiceV1"      \* gemini.service.ts, the first GeminiService

\* validateInputs: the message of the error it throws, <<>> when it returns
validateInputs(schema, question) ==
  IF ~(schema.t = "array" /\ Len(schema.a) # 0)
    THEN <<"Database schema is required">>
  ELSE IF ~(question.t = "string" /\ Len(Trim(question.s)) # 0)
    THEN <<"Question is required">>
  ELSE <<>>

\* The reply text of the provider is a sequence of tokens: a code fence
\* (``` or ```json), a // comment, a JSON object, or text that is no JSON.
Fence(lang) == [k |-> "fence", lang |-> lang]

Comment == [k |-> "comment"]

Junk == [k |-> "junk"]

Json(fields) == [k |-> "obj", o |-> fields]

\* cleanResponse: strips a leading ```(json)?, a trailing ``` and every // comment
cleanResponse(response) ==
  LET a == IF Len(response) > 0 /\ response[1].k = "fence" THEN Tail(response) ELSE response
      b == IF Len(a) > 0 /\ a[Len(a)].k = "fence" /\ a[Len(a)].lang = ""
             THEN SubSeq(a, 1, Len(a) - 1) ELSE a
  IN  SelectSeq(b, LAMBDA tok : tok.k # "comment")

\* JSON.parse of the cleaned text
JSONparse(cleaned) ==
  IF Len(cleaned) = 1 /\ cleaned[1].k = "obj"
    THEN Returned(cleaned[1].o)
    ELSE Threw(<<"Unexpected token in JSON">>)

validChartTypes(service) ==
  CASE service = GeminiService -> {"pie", "line", "bar"}
    [] service = OpenAIService ->
         {"any", "pie", "line", "bar", "doughnut", "polarArea", "radar",
          "scatter", "bubble", "mixed"}
    [] OTHER -> {}

apiName(service) == IF service = OpenAIService THEN "OpenAI" ELSE "Gemini"

\* validateQueryResult without the checks of explanation
validateQueryResultWithoutExplanation(service, result) ==
  LET isValid ==
        /\ Truthy(result.sql) /\ result.sql.t = "string"
        /\ result.isUnsafe.t = "boolean"
  IN  IF ~isValid
        THEN <<"Invalid response format from ", apiName(service), " API">>
      ELSE IF /\ service # GeminiServiceV1
              /\ Truthy(result.chartConfig)
              /\ result.chartConfig.o.type \notin validChartTypes(service)
        THEN <<"Invalid chart type: ", result.chartConfig.o.type>>
      ELSE <<>>

\* validateQueryResult: the message of the error it throws, <<>> when it returns
validateQueryResult(service, result) ==
  LET isValid ==
        /\ Truthy(result.sql) /\ result.sql.t = "string"
        /\ result.isUnsafe.t = "boolean"
        /\ Truthy(result.explanation) /\ result.explanation.t = "string"
  IN  IF ~isValid
        THEN <<"Invalid response format from ", apiName(service), " API">>
      ELSE IF /\ service # GeminiServiceV1
              /\ Truthy(result.chartConfig)
              /\ result.chartConfig.o.type \notin validChartTypes(service)
        THEN <<"Invalid chart type: ", result.chartConfig.o.type>>
      ELSE <<>>

parseAndValidateResponse(service, response) ==
  LET parsed == JSONparse(cleanResponse(response))
  IN  IF ~parsed.ok THEN parsed
      ELSE IF validateQueryResult(service, parsed.value) # <<>>
        THEN Threw(validateQueryResult(service, parsed.value))
      ELSE parsed

\* the catch block of generateQuery
WrapGenerationError(message) == <<"Failed to generate SQL query: ">> \o message

\* What happens before generateContent is called: the message of the error
\* thrown there, <<>> when the provider is reached.
beforeGenerateContent(service, schema, question, errorMessage) ==
  CASE service = OpenAIService ->
         \* validateInputs is called before the try block
         validateInputs(schema, question)
    [] service = GeminiService ->
         \* no validateInputs; schema.map throws on a schema that is no array
         IF schema.t # "array"
           THEN WrapGenerationError(<<"Cannot read properties of undefined (reading 'map')">>)
           ELSE <<>>
    [] OTHER ->
         \* generatePrompt validates; generateErrorFixPrompt does not
         IF Truthy(errorMessage)
           THEN IF schema.t # "array"
                  THEN WrapGenerationError(<<"Cannot read properties of undefined (reading 'map')">>)
                  ELSE <<>>
           ELSE IF validateInputs(schema, question) # <<>>
                  THEN WrapGenerationError(validateInputs(schema, question))
                  ELSE <<>>

\* generateQuery asking the provider a second time when the reply is unusable
generateQueryAskingAgain(service, schema, question, errorMessage, reply) ==
  LET early == beforeGenerateContent(service, schema, question, errorMessage)
      parsed == parseAndValidateResponse(service, reply.text)
  IN  IF early # <<>>
        THEN [result |-> Threw(early), provider |-> 0]
      ELSE IF reply.throws
        THEN [result |-> Threw(WrapGenerationError(reply.message)), provider |-> 1]
      ELSE IF ~parsed.ok
        THEN [result |-> Threw(WrapGenerationError(parsed.error)), provider |-> 2]
      ELSE [result |->
              Returned([parsed.value EXCEPT
                 !.isUnsafe = Bool(parsed.value.isUnsafe.b
                                   \/ checkUnsafeOperations(parsed.value.sql.s))]),
            provider |-> 1]

\* generateQuery returning the isUnsafe of the reply as it is
generateQueryTrustingReply(service, schema, question, errorMessage, reply) ==
  LET early == beforeGenerateContent(service, schema, question, errorMessage)
      parsed == parseAndValidateResponse(service, reply.text)
  IN  IF early # <<>>
        THEN [result |-> Threw(early), provider |-> 0]
      ELSE IF reply.throws
        THEN [result |-> Threw(WrapGenerationError(reply.message)), provider |-> 1]
      ELSE IF ~parsed.ok
        THEN [result |-> Threw(WrapGenerationError(parsed.error)), provider |-> 1]
      ELSE [result |-> Returned(parsed.value), provider |-> 1]

\* generateQuery against a provider whose generateContent call ends as `reply`:
\* the result, and the number of calls it made to the provider.
generateQuery(service, schema, question, errorMessage, reply) ==
  LET early == beforeGenerateContent(service, schema, question, errorMessage)
      parsed == parseAndValidateResponse(service, reply.text)
  IN  IF early # <<>>
        THEN [result |-> Threw(early), provider |-> 0]
      ELSE IF reply.throws
        THEN [result |-> Threw(WrapGenerationError(reply.message)), provider |-> 1]
      ELSE IF ~parsed.ok
        THEN [result |-> Threw(WrapGenerationError(parsed.error)), provider |-> 1]
      ELSE [result |->
              Returned([parsed.value EXCEPT
                 !.isUnsafe = Bool(parsed.value.isUnsafe.b
                                   \/ checkUnsafeOperations(parsed.value.sql.s))]),
            provider |-> 1]

----------------------------------------------------------------------------
(* The servers.                                                            *)

ServerRegen == "regen"   \* gemini.service.ts: the server that regenerates a failed query

ServerPlain == "plain"   \* server.ts

ServerMulti == "multi"   \* unnamed/part_003: the server for MySQL and SQL Server

ServerFirst == "first"   \* unnamed/part_004: the first server; its /api/schema is modelled

UnsafeQueriesMessage ==
  <<"Unsafe queries (UPDATE/DELETE) are not allowed. Update ALLOW_UNSAFE_QUERIES ",
    "in .env to enable.">>

\* The marker phrases that String.prototype.includes is called with, and the
\* fragments of the model's messages that contain each.
FragmentsIncluding(phrase) ==
  CASE phrase = "Unsafe queries" -> {UnsafeQueriesMessage[1]}
    [] phrase = "ETIMEDOUT" -> {"connect ETIMEDOUT"}
    [] phrase = "required" ->
         {"Database schema is required", "Question is required",
          "Schema and question are required",
          "Missing required DB Config fields: host, user, password, or database.",
          "Missing required database connection string."}
    [] OTHER -> {}

\* message.includes(phrase)
Includes(message, phrase) ==
  \E i \in 1..Len(message) : message[i] \in FragmentsIncluding(phrase)

\* validateQuerySafety rejecting only when the variable is set to 'false'
validateQuerySafetyUnlessUnset(isUnsafe, env) ==
  IF Truthy(isUnsafe) /\ env = "false" THEN UnsafeQueriesMessage ELSE <<>>

\* validateQuerySafety rejecting every unsafe query, whatever the environment
validateQuerySafetyIgnoringEnv(isUnsafe, env) ==
  IF Truthy(isUnsafe) THEN UnsafeQueriesMessage ELSE <<>>

\* validateQuerySafety: the message of the error it throws, <<>> when it returns
validateQuerySafety(isUnsafe, env) ==
  IF Truthy(isUnsafe) /\ env # "true" THEN UnsafeQueriesMessage ELSE <<>>

\* validateDatabaseConfig: the message of the error it throws, <<>> when it returns
validateDatabaseConfig(config) ==
  IF config = "incomplete"
    THEN <<"Missing required DB Config fields: host, user, password, or database.">>
    ELSE <<>>

\* handleExecutionError and handleQueryError: the response they send
handleExecutionError(srv, message) ==
  [status |-> IF srv = ServerRegen /\ Includes(message, "Unsafe queries") THEN 403 ELSE 500,
   body |-> [success |-> FALSE, error |-> message]]

handleQueryError(srv, message) == handleExecutionError(srv, message)

\* extractErrorMessage losing the driver's message
extractErrorMessageUnknown(error) == <<"Unknown error">>

\* extractErrorMessage: every error of the database driver is an Error
extractErrorMessage(error) == error.message

\* handleRegenerationError with the two errors in each other's place
handleRegenerationErrorSwapped(regenerateError, error) ==
  [status |-> 500,
   body |-> [success |-> FALSE, error |-> error.message, originalError |-> regenerateError]]

\* handleRegenerationError: the response it sends
handleRegenerationError(regenerateError, error) ==
  [status |-> 500,
   body |-> [success |-> FALSE, error |-> regenerateError, originalError |-> error.message]]

\* the finally block of handleQueryExecution: if (pool) await pool.end()
Finally(p) == IF p.assigned THEN [p EXCEPT !.ends = @ + 1] ELSE p

FinallyCalls(p) == IF p.assigned THEN <<[op |-> "end", ok |-> ~p.endRejects]>> ELSE <<>>

\* Whether closing a pool fails: closing a pool that never got a connection
\* has nothing to close and succeeds.
EndOutcomes(reachable) == IF reachable THEN BOOLEAN ELSE {FALSE}

\* the error pool.end() (pool.close() of a SQL Server pool) rejects with
EndError == <<"Can't add new command when connection is in closed state">>

\* The outer catch block of handleQueryExecution in part_003: an error thrown
\* by the inner finally block is answered with handleQueryError, also when
\* the inner try or catch block has answered already.
OuterCatch(srv, p) ==
  IF srv = ServerMulti /\ p.assigned /\ p.endRejects
    THEN <<handleQueryError(srv, EndError)>>
    ELSE <<>>

----------------------------------------------------------------------------
(* The inputs: request bodies, environment, and the outcomes of the        *)
(* database and of the LLM provider.                                       *)

SqlSelect == <<"S","E","L","E","C","T"," ","a">>

SqlSelectB == <<"S","E","L","E","C","T"," ","b">>

SqlDrop == <<"d","r","o","p"," ","t">>

SqlDelete == <<"D","e","l","e","t","e"," ","F","R","O","M"," ","t">>

SqlUpdatedAt == <<"S","E","L","E","C","T"," ","u","p","d","a","t","e","d","_","a","t">>

Queries == {SqlSelect, SqlDrop, SqlDelete, SqlUpdatedAt}

Schemas == {Undefined, Arr(<<>>), Arr(<<[tableName |-> "orders"]>>)}

Questions == {Undefined, Str(<<>>), Str(<<" ">>), Str(<<"q">>)}

EnvValues == {"true", "false", "undefined"}

\* the errors pool.query rejects with: the database rejected the SQL, or
\* the database could not be reached
DbErrors ==
  { [kind |-> "sql", message |-> <<"Unknown column 'user_id' in 'field list'">>],
    [kind |-> "sql", message |-> <<"You have an error in your SQL syntax">>],
    [kind |-> "conn", message |-> <<"connect ECONNREFUSED 127.0.0.1:3306">>] }

Rows == [kind |-> "rows"]

QueryOutcomes == {Rows} \cup DbErrors

NoUpdate == <<"n","o"," ","u","p","d","a","t","e">>

Explained(sql, isUnsafe) ==
  [sql |-> Str(sql), isUnsafe |-> isUnsafe, explanation |-> Str(<<"e">>),
   chartConfig |-> Undefined]

\* the ways a generateContent call ends
Replies ==
  { [throws |-> TRUE, message |-> <<"fetch failed">>],
    [throws |-> FALSE, text |-> <<Junk>>],
    [throws |-> FALSE, text |-> <<Json(Explained(SqlSelectB, Bool(FALSE)))>>],
    [throws |-> FALSE,
     text |-> <<Fence("json"), Json(Explained(SqlSelectB, Bool(FALSE))), Fence("")>>],
    [throws |-> FALSE, text |-> <<Json(Explained(SqlDelete, Bool(TRUE)))>>],
    [throws |-> FALSE, text |-> <<Json(Explained(SqlDrop, Bool(FALSE)))>>],
    [throws |-> FALSE,
     text |-> <<Json([Explained(SqlSelectB, Bool(FALSE)) EXCEPT !.explanation = Undefined])>>],
    [throws |-> FALSE, text |-> <<Json(Explained(SqlSelectB, Str(<<"t","r","u","e">>)))>>],
    [throws |-> FALSE, text |-> <<Json(Explained(SqlSelectB, Undefined))>>],
    [throws |-> FALSE, text |-> <<Json(Explained(<<>>, Bool(FALSE)))>>],
    [throws |-> FALSE,
     text |-> <<Json([Explained(SqlSelectB, Bool(FALSE)) EXCEPT !.sql = Num(7)])>>],
    [throws |-> FALSE,
     text |-> <<Json([Explained(SqlSelectB, Bool(FALSE)) EXCEPT !.explanation = Str(<<>>)])>>],
    [throws |-> FALSE,
     text |-> <<Json([Explained(SqlSelectB, Bool(FALSE)) EXCEPT
                        !.explanation = Str(NoUpdate)])>>],
    [throws |-> FALSE,
     text |-> <<Json([Explained(SqlSelectB, Bool(FALSE)) EXCEPT
                        !.chartConfig = Obj([type |-> "doughnut"])])>>],
    [throws |-> FALSE,
     text |-> <<Json([Explained(SqlSelectB, Bool(FALSE)) EXCEPT
                        !.chartConfig = Obj([type |-> "pie"])])>>],
    [throws |-> FALSE,
     text |-> <<Json([Explained(SqlSelectB, Bool(FALSE)) EXCEPT
                        !.chartConfig = Obj([type |-> "bogus"])])>>] }

ServerServices ==
  { <<ServerRegen, GeminiService>>, <<ServerRegen, GeminiServiceV1>>,
    <<ServerFirst, GeminiServiceV1>>,
    <<ServerPlain, GeminiService>>,
    <<ServerMulti, GeminiService>>, <<ServerMulti, OpenAIService>> }

\* the bodies of POST /api/execute-query; only the regenerating server reads
\* schema, question, referenceText and chartType
ExecuteRequests(srv) ==
  IF srv = ServerRegen
    THEN [endpoint : {"execute"}, config : {"standard", "malformed"}, query : Queries,
          isUnsafe : {Bool(TRUE), Bool(FALSE)}, schema : Schemas, question : Questions,
          referenceText : {Undefined}, chartType : {Undefined, Str(<<"pie">>)}]
    ELSE [endpoint : {"execute"}, config : {"standard", "incomplete", "malformed"},
          query : Queries,
          isUnsafe : {Bool(TRUE), Bool(FALSE)}, schema : {Undefined}, question : {Undefined},
          referenceText : {Undefined}, chartType : {Undefined}]

\* the bodies of POST /api/generate-query
GenerateRequests ==
  [endpoint : {"generate"}, schema : Schemas, question : Questions,
   error : {Undefined, Str(<<"Unknown column 'user_id' in 'field list'">>)},
   referenceText : {Undefined},
   chartType : {Undefined, Str(<<"pie">>), Str(<<"doughnut">>), Str(<<"bogus">>)}]

\* created: createPool returned it; assigned: the handler's variable `pool`
\* holds it; ends: the calls of pool.end() (pool.close()); endRejects: whether
\* closing this pool fails
NoPool == [created |-> FALSE, assigned |-> FALSE, ends |-> 0, endRejects |-> FALSE]

\* the errors createDatabasePool throws: createPool on a connection string
\* that is no URL, and pool.connect() of a SQL Server pool (server.constant.ts)
CreateErrors(srv, config) ==
  IF config = "malformed" THEN {<<"Invalid URL">>}
  ELSE IF srv \in {ServerPlain, ServerMulti}
    THEN {<<"Failed to connect to localhost:1433 - Could not connect (sequence)">>}
  ELSE {}

NoError == [kind |-> "none"]

\* the bodies of POST /api/schema: a database configuration
SchemaRequests == [endpoint : {"schema"}, config : {"standard", "malformed"}]

\* no prompt is being built
NoArgs == [service |-> "none"]

Requests(srv) ==
  IF srv = ServerFirst
    THEN SchemaRequests
    ELSE ExecuteRequests(srv) \cup GenerateRequests \cup SchemaRequests

Init ==
  /\ \E pair \in ServerServices : server = pair[1] /\ aiService = pair[2]
  /\ allowUnsafe \in EnvValues
  /\ req \in Requests(server)
  /\ pc = "start"
  /\ pool = NoPool
  /\ queryError = NoError
  /\ regenerated = Undefined
  /\ tables = <<>>
  /\ builtSchema = <<>>
  /\ calls = <<>>
  /\ res = <<>>
  /\ locals = Undefined
  /\ uploads = <<>>
  /\ args = NoArgs
  /\ prompt = <<>>

----------------------------------------------------------------------------
(* POST /api/execute-query                                                 *)

Send(response) == res' = Append(res, response)

Answer(responses) == res' = res \o responses

Call(events) == calls' = calls \o events

\* a call of pool.query: the SQL it ran, and how it ended
QueryCall(sql, out) ==
  [op |-> "query", sql |-> sql, kind |-> out.kind,
   message |-> IF out.kind = "rows" THEN <<>> ELSE out.message]

\* res.json({ success: true, results })
ExecutionSuccess(out) == [status |-> 200, body |-> [success |-> TRUE, results |-> out]]

\* the response of executeRegeneratedQuery without the original error
RegeneratedSuccessWithoutOriginalError(out, regen, errorMessage) ==
  [status |-> 200,
   body |-> [success |-> TRUE, results |-> out,
             regeneratedQuery |-> [sql |-> regen.sql, explanation |-> regen.explanation]]]

\* the response of executeRegeneratedQuery
RegeneratedSuccess(out, regen, errorMessage) ==
  [status |-> 200,
   body |-> [success |-> TRUE, results |-> out,
             regeneratedQuery |-> [sql |-> regen.sql, explanation |-> regen.explanation],
             originalError |-> errorMessage]]

\* handleQueryExecution up to its first await: the validation of the request
handleQueryExecution ==
  /\ pc = "start"
  /\ req.endpoint = "execute"
  /\ LET configError == IF server = ServerRegen THEN <<>> ELSE validateDatabaseConfig(req.config)
         thrown == IF configError # <<>>
                     THEN configError
                     ELSE validateQuerySafety(req.isUnsafe, allowUnsafe)
     IN  IF thrown # <<>>
           THEN /\ Send(IF server = ServerRegen
                          THEN handleExecutionError(server, thrown)
                          ELSE handleQueryError(server, thrown))
                /\ pc' = "done"
           ELSE /\ pc' = "initializeDatabasePool"
                /\ UNCHANGED res
  /\ UNCHANGED <<locals, uploads, args, prompt>>
  /\ UNCHANGED <<server, aiService, allowUnsafe, req, tables, builtSchema, pool, queryError, regenerated, calls>>

\* initializeDatabasePool (createDatabasePool and testConnection in part_003):
\* the pool is created and a connection is taken from it.  When that fails,
\* testConnection ends the pool and throws, and the handler answers.  Only in
\* part_003 is the handler's pool variable assigned by then.
initializeDatabasePool ==
  /\ pc = "initializeDatabasePool"
  /\ \/ \E message \in CreateErrors(server, req.config) :
          /\ Call(<<[op |-> "createPool", ok |-> FALSE]>>)
          /\ Send(IF server = ServerRegen
                    THEN handleExecutionError(server, message)
                    ELSE handleQueryError(server, message))
          /\ pc' = "done"
          /\ UNCHANGED pool
     \/ /\ req.config # "malformed"
        /\ \E reachable \in BOOLEAN : \E endRejects \in EndOutcomes(reachable) :
             LET held == [created |-> TRUE, assigned |-> reachable \/ server = ServerMulti,
                          ends |-> IF reachable THEN 0 ELSE 1, endRejects |-> endRejects]
                 failure == <<"Failed to connect to database: ",
                              "connect ECONNREFUSED 127.0.0.1:3306">>
             IN  IF reachable
                   THEN /\ pool' = held
                        /\ Call(<<[op |-> "createPool", ok |-> TRUE],
                                  [op |-> "getConnection", ok |-> TRUE]>>)
                        /\ pc' = "executeQuery"
                        /\ UNCHANGED res
                   ELSE /\ pool' = Finally(held)
                        /\ Call(<<[op |-> "createPool", ok |-> TRUE],
                                  [op |-> "getConnection", ok |-> FALSE],
                                  [op |-> "end", ok |-> ~endRejects]>> \o FinallyCalls(held))
                        /\ Answer(<<IF server = ServerRegen
                                      THEN handleExecutionError(server, failure)
                                      ELSE handleQueryError(server, failure)>>
                                  \o OuterCatch(server, held))
                        /\ pc' = "done"
  /\ UNCHANGED <<locals, uploads, args, prompt>>
  /\ UNCHANGED <<server, aiService, allowUnsafe, req, tables, builtSchema, queryError, regenerated>>

\* executeQueryWithHandling regenerating when schema or question is there
executeQueryWithHandlingWithEither ==
  /\ pc = "executeQuery"
  /\ server = ServerRegen
  /\ \E out \in QueryOutcomes :
       IF out = Rows
         THEN /\ Send(ExecutionSuccess(out))
              /\ Call(<<QueryCall(req.query, out)>> \o FinallyCalls(pool))
              /\ pool' = Finally(pool)
              /\ pc' = "done"
              /\ UNCHANGED queryError
         ELSE IF Truthy(req.schema) \/ Truthy(req.question)
           THEN /\ queryError' = out
                /\ Call(<<QueryCall(req.query, out)>>)
                /\ pc' = "handleQueryRegeneration"
                /\ UNCHANGED <<res, pool>>
           ELSE /\ Send(handleQueryError(server, out.message))
                /\ Call(<<QueryCall(req.query, out)>> \o FinallyCalls(pool))
                /\ pool' = Finally(pool)
                /\ pc' = "done"
                /\ UNCHANGED queryError
  /\ UNCHANGED <<locals, uploads, args, prompt>>
  /\ UNCHANGED <<server, aiService, allowUnsafe, req, tables, builtSchema, regenerated>>

\* executeQueryWithHandling: the first execution in the regenerating server
executeQueryWithHandling ==
  /\ pc = "executeQuery"
  /\ server = ServerRegen
  /\ \E out \in QueryOutcomes :
       IF out = Rows
         THEN /\ Send(ExecutionSuccess(out))
              /\ Call(<<QueryCall(req.query, out)>> \o FinallyCalls(pool))
              /\ pool' = Finally(pool)
              /\ pc' = "done"
              /\ UNCHANGED queryError
         ELSE IF Truthy(req.schema) /\ Truthy(req.question)
           THEN /\ queryError' = out
                /\ Call(<<QueryCall(req.query, out)>>)
                /\ pc' = "handleQueryRegeneration"
                /\ UNCHANGED <<res, pool>>
           ELSE /\ Send(handleQueryError(server, out.message))
                /\ Call(<<QueryCall(req.query, out)>> \o FinallyCalls(pool))
                /\ pool' = Finally(pool)
                /\ pc' = "done"
                /\ UNCHANGED queryError
  /\ UNCHANGED <<locals, uploads, args, prompt>>
  /\ UNCHANGED <<server, aiService, allowUnsafe, req, tables, builtSchema, regenerated>>

\* server.ts: pool.query(query); part_003: executeQuery(pool, query)
executeQuery ==
  /\ pc = "executeQuery"
  /\ server # ServerRegen
  /\ \E out \in QueryOutcomes :
       /\ Answer(<<IF out = Rows
                     THEN ExecutionSuccess(out)
                     ELSE handleQueryError(server, out.message)>>
                 \o OuterCatch(server, pool))
       /\ Call(<<QueryCall(req.query, out)>> \o FinallyCalls(pool))
  /\ pool' = Finally(pool)
  /\ pc' = "done"
  /\ UNCHANGED <<locals, uploads, args, prompt>>
  /\ UNCHANGED <<server, aiService, allowUnsafe, req, tables, builtSchema, queryError, regenerated>>

\* the call of generateQuery that regenerateQuery makes: executeQuery hands
\* chartType to executeQueryWithHandling in the place of referenceText
GenerateCall(schema, question, errorMessage, referenceText, chartType, made, reply) ==
  <<[op |-> "generateQuery", schema |-> schema, question |-> question,
     errorMessage |-> errorMessage, referenceText |-> referenceText,
     chartType |-> chartType, returned |-> made.result]>>
  \o [n \in 1..made.provider |-> [op |-> "generateContent", reply |-> reply]]

\* handleQueryRegeneration up to the end of regenerateQuery
handleQueryRegeneration ==
  /\ pc = "handleQueryRegeneration"
  /\ \E reply \in Replies :
       LET errorMessage == Str(extractErrorMessage(queryError))
           made == generateQuery(aiService, req.schema, req.question, errorMessage, reply)
           called == GenerateCall(req.schema, req.question, errorMessage,
                                  req.chartType, Undefined, made, reply)
       IN  IF made.result.ok
             THEN /\ regenerated' = made.result.value
                  /\ Call(called)
                  /\ pc' = "executeRegeneratedQuery"
                  /\ UNCHANGED <<res, pool>>
             ELSE /\ Send(handleRegenerationError(made.result.error, queryError))
                  /\ Call(called \o FinallyCalls(pool))
                  /\ pool' = Finally(pool)
                  /\ pc' = "done"
                  /\ UNCHANGED regenerated
  /\ UNCHANGED <<locals, uploads, args, prompt>>
  /\ UNCHANGED <<server, aiService, allowUnsafe, req, tables, builtSchema, queryError>>

\* executeRegeneratedQuery feeding a second failure back into regeneration
executeRegeneratedQueryRetrying ==
  /\ pc = "executeRegeneratedQuery"
  /\ \E out \in QueryOutcomes :
       IF out = Rows
         THEN /\ Call(<<QueryCall(regenerated.sql.s, out)>> \o FinallyCalls(pool))
              /\ Send(RegeneratedSuccess(out, regenerated, extractErrorMessage(queryError)))
              /\ pool' = Finally(pool)
              /\ pc' = "done"
              /\ UNCHANGED queryError
         ELSE /\ Call(<<QueryCall(regenerated.sql.s, out)>>)
              /\ queryError' = out
              /\ pc' = "handleQueryRegeneration"
              /\ UNCHANGED <<res, pool>>
  /\ UNCHANGED <<locals, uploads, args, prompt>>
  /\ UNCHANGED <<server, aiService, allowUnsafe, req, tables, builtSchema, regenerated>>

\* executeRegeneratedQuery, and the catch block of handleQueryRegeneration
executeRegeneratedQuery ==
  /\ pc = "executeRegeneratedQuery"
  /\ \E out \in QueryOutcomes :
       /\ Call(<<QueryCall(regenerated.sql.s, out)>> \o FinallyCalls(pool))
       /\ Send(IF out = Rows
                 THEN RegeneratedSuccess(out, regenerated, extractErrorMessage(queryError))
                 ELSE handleRegenerationError(out.message, queryError))
  /\ pool' = Finally(pool)
  /\ pc' = "done"
  /\ UNCHANGED <<locals, uploads, args, prompt>>
  /\ UNCHANGED <<server, aiService, allowUnsafe, req, tables, builtSchema, queryError, regenerated>>

----------------------------------------------------------------------------
(* POST /api/generate-query                                                *)

EarlyChartTypes == {"pie", "line", "bar"}

AllChartTypes ==
  {"any", "pie", "line", "bar", "doughnut", "polarArea", "radar", "scatter", "bubble", "mixed"}

\* validateQueryRequest: the message of the error it throws, <<>> when it returns
validateQueryRequest(srv, body) ==
  IF ~Truthy(body.schema) \/ ~Truthy(body.question)
    THEN <<"Schema and question are required">>
  ELSE IF ~Truthy(body.chartType) THEN <<>>
  ELSE IF srv = ServerRegen
    THEN IF body.chartType.s[1] \notin EarlyChartTypes
           THEN <<"Chart type must be one of: pie, line, bar">>
           ELSE <<>>
  ELSE IF body.chartType.s[1] \notin AllChartTypes
    THEN <<"Chart type ", body.chartType.s[1], " is not supported">>
  ELSE <<>>

\* the catch block of handleQueryGeneration
GenerationFailure(message) ==
  [status |-> IF Includes(message, "required") THEN 400 ELSE 500,
   body |-> [error |-> message]]

\* the arguments handleQueryGeneration calls generateQuery with: the
\* reference text of the request or, when it has none, the shared one
GenerateArgs(service, body, shared) ==
  [service |-> service, schema |-> body.schema, question |-> body.question,
   errorMessage |-> body.error,
   referenceText |-> IF Truthy(body.referenceText) THEN body.referenceText ELSE shared,
   chartType |-> body.chartType]

\* handleQueryGeneration up to its await: the validation of the request, and
\* the call of generateQuery, which builds the prompt before it first awaits
handleQueryGeneration ==
  /\ pc = "start"
  /\ req.endpoint = "generate"
  /\ IF validateQueryRequest(server, req) # <<>>
       THEN /\ Send(GenerationFailure(validateQueryRequest(server, req)))
            /\ pc' = "done"
            /\ UNCHANGED args
       ELSE /\ args' = GenerateArgs(aiService, req, locals)
            /\ pc' = "generateQuery"
            /\ UNCHANGED res
  /\ UNCHANGED <<locals, uploads, prompt>>
  /\ UNCHANGED <<server, aiService, allowUnsafe, req, tables, builtSchema, pool, queryError, regenerated, calls>>

\* the await of generateQuery in handleQueryGeneration, and the response
handleQueryGenerationResult ==
  /\ pc = "generateQuery"
  /\ req.endpoint = "generate"
  /\ \E reply \in Replies :
       LET made == generateQuery(aiService, args.schema, args.question, args.errorMessage,
                                 reply)
       IN  /\ Call(GenerateCall(args.schema, args.question, args.errorMessage,
                                args.referenceText, args.chartType, made, reply))
           /\ Send(IF made.result.ok
                     THEN [status |-> 200, body |-> made.result.value]
                     ELSE GenerationFailure(made.result.error))
  /\ pc' = "done"
  /\ UNCHANGED <<locals, uploads, args, prompt>>
  /\ UNCHANGED <<server, aiService, allowUnsafe, req, tables, builtSchema, pool, queryError, regenerated>>

----------------------------------------------------------------------------
(* POST /api/schema                                                        *)

\* getTables and getTableColumns of server.constant.ts (server.ts, part_003)
\* catch every error, log it and return []; those of gemini.service.ts and
\* part_004 have no catch block
SwallowsIntrospectionErrors(srv) == srv \in {ServerPlain, ServerMulti}

\* processSchemaRequest ends the pool in a finally block; handleSchemaRequest
\* of part_004 ends it as the last statement but one of its try block
ClosesInFinally(srv) == srv # ServerFirst

\* buildSchema of part_004 reads no sample row
HasSampleData(srv) == srv # ServerFirst

\* the errors the connectivity probe fails with
ProbeErrors == {<<"connect ECONNREFUSED 127.0.0.1:3306">>, <<"connect ETIMEDOUT">>}

IntrospectionError == [kind |-> "sql", message |-> <<"SELECT command denied to user">>]

\* the outcomes of the query of getTables
TableOutcomes ==
  { [kind |-> "rows", rows |-> <<>>],
    [kind |-> "rows", rows |-> <<"orders">>],
    [kind |-> "rows", rows |-> <<"orders", "users">>],
    IntrospectionError }

\* the outcomes of the query of getTableColumns
ColumnOutcomes == { [kind |-> "rows", rows |-> <<"id", "total">>], IntrospectionError }

\* the outcomes of the query of getSampleData: a row, no row, an error
SampleOutcomes(srv) ==
  IF HasSampleData(srv)
    THEN { [kind |-> "rows", rows |-> <<[id |-> 1]>>],
           [kind |-> "rows", rows |-> <<>>],
           IntrospectionError }
    ELSE { [kind |-> "none"] }

getTables(srv, out) ==
  IF out.kind = "rows" THEN Returned(out.rows)
  ELSE IF SwallowsIntrospectionErrors(srv) THEN Returned(<<>>)
  ELSE Threw(out.message)

getTableColumns(srv, out) ==
  IF out.kind = "rows" THEN Returned(Arr(out.rows))
  ELSE IF SwallowsIntrospectionErrors(srv) THEN Returned(Arr(<<>>))
  ELSE Threw(out.message)

\* getSampleData without its catch block
getSampleDataThrowing(out) ==
  IF out.kind = "sql" THEN Threw(out.message)
  ELSE IF out.kind = "rows" /\ Len(out.rows) > 0 THEN Returned(Obj(out.rows[1]))
  ELSE Returned(Undefined)

\* getSampleData: the first row, undefined when there is none or the query fails
getSampleData(out) ==
  IF out.kind = "rows" /\ Len(out.rows) > 0
    THEN Returned(Obj(out.rows[1]))
    ELSE Returned(Undefined)

\* schema.push({ tableName, columns, sampleData })
SchemaEntry(srv, table, columns, sampleData) ==
  IF HasSampleData(srv)
    THEN [tableName |-> table, columns |-> columns, sampleData |-> sampleData]
    ELSE [tableName |-> table, columns |-> columns]

handleDatabaseError(message) ==
  IF Includes(message, "ETIMEDOUT")
    THEN [status |-> 504,
          body |-> [error |-> <<"Database connection timed out. ",
                                "Check accessibility and credentials.">>]]
  ELSE IF Includes(message, "ER_ACCESS_DENIED_ERROR")
    THEN [status |-> 401, body |-> [error |-> <<"Access denied. Check username and password.">>]]
  ELSE IF Includes(message, "ER_BAD_DB_ERROR")
    THEN [status |-> 404, body |-> [error |-> <<"Database not found. Check database name.">>]]
  ELSE [status |-> 500, body |-> [error |-> message]]

\* The end of a schema request whose pool is p, after the calls `events`, when
\* the try block has ended as `result`: the pool is ended (in part_004 only
\* when the try block got that far) and the client is answered.  An error of
\* pool.end() replaces the result.
SchemaRequestEnds(p, events, result) ==
  LET closes == result.ok \/ ClosesInFinally(server)
      rejected == closes /\ p.endRejects
  IN  /\ pool' = IF closes THEN [p EXCEPT !.ends = @ + 1] ELSE p
      /\ Call(events \o IF closes THEN <<[op |-> "end", ok |-> ~p.endRejects]>> ELSE <<>>)
      /\ Send(IF rejected THEN handleDatabaseError(EndError)
              ELSE IF result.ok THEN [status |-> 200, body |-> [schema |-> result.value]]
              ELSE handleDatabaseError(result.error))
      /\ pc' = "done"

\* handleSchemaRequest up to the end of testConnection
handleSchemaRequest ==
  /\ pc = "start"
  /\ req.endpoint = "schema"
  /\ \/ \E message \in CreateErrors(server, req.config) :
          /\ Call(<<[op |-> "createPool", ok |-> FALSE]>>)
          /\ Send(handleDatabaseError(message))
          /\ pc' = "done"
          /\ UNCHANGED pool
     \/ /\ req.config # "malformed"
        /\ \E reachable \in BOOLEAN : \E endRejects \in EndOutcomes(reachable) :
             LET held == [created |-> TRUE, assigned |-> TRUE, ends |-> 0,
                          endRejects |-> endRejects]
                 created == <<[op |-> "createPool", ok |-> TRUE]>>
             IN  IF reachable
                   THEN /\ pool' = held
                        /\ Call(created \o <<[op |-> "getConnection", ok |-> TRUE]>>)
                        /\ pc' = "getTables"
                        /\ UNCHANGED res
                   ELSE \E error \in ProbeErrors :
                          \* testConnection ends the pool and throws
                          SchemaRequestEnds(
                            [held EXCEPT !.ends = 1],
                            created \o <<[op |-> "getConnection", ok |-> FALSE],
                                         [op |-> "end", ok |-> TRUE]>>,
                            Threw(<<"Failed to connect to database: ">> \o error))
  /\ UNCHANGED <<locals, uploads, args, prompt>>
  /\ UNCHANGED <<server, aiService, allowUnsafe, req, tables, builtSchema, queryError, regenerated>>

\* processSchemaRequest at its await of getTables
processSchemaRequest ==
  /\ pc = "getTables"
  /\ \E out \in TableOutcomes :
       LET got == getTables(server, out)
           event == <<[op |-> "getTables", kind |-> out.kind]>>
       IN  IF ~got.ok
             THEN /\ SchemaRequestEnds(pool, event, got)
                  /\ UNCHANGED tables
           ELSE IF got.value = <<>>
             THEN /\ SchemaRequestEnds(pool, event, Returned(<<>>))
                  /\ UNCHANGED tables
           ELSE /\ tables' = got.value
                /\ Call(event)
                /\ pc' = "buildSchema"
                /\ UNCHANGED <<pool, res>>
  /\ UNCHANGED <<locals, uploads, args, prompt>>
  /\ UNCHANGED <<server, aiService, allowUnsafe, req, builtSchema, queryError, regenerated>>

\* one iteration of the loop of buildSchema; after the last one the schema
\* is returned
buildSchema ==
  /\ pc = "buildSchema"
  /\ \E columnsOut \in ColumnOutcomes, sampleOut \in SampleOutcomes(server) :
       LET table == tables[Len(builtSchema) + 1]
           columns == getTableColumns(server, columnsOut)
           columnsEvent ==
             <<[op |-> "getTableColumns", table |-> table, kind |-> columnsOut.kind]>>
           sampleEvent ==
             IF HasSampleData(server)
               THEN <<[op |-> "getSampleData", table |-> table, kind |-> sampleOut.kind,
                       out |-> sampleOut]>>
               ELSE <<>>
           sampleData == getSampleData(sampleOut)
       IN  IF ~columns.ok
             THEN /\ SchemaRequestEnds(pool, columnsEvent, columns)
                  /\ UNCHANGED builtSchema
           ELSE IF ~sampleData.ok
             THEN /\ SchemaRequestEnds(pool, columnsEvent \o sampleEvent, sampleData)
                  /\ UNCHANGED builtSchema
             ELSE LET schema == Append(builtSchema,
                                       SchemaEntry(server, table, columns.value,
                                                   sampleData.value))
                  IN  /\ builtSchema' = schema
                      /\ IF Len(schema) = Len(tables)
                           THEN SchemaRequestEnds(pool, columnsEvent \o sampleEvent,
                                                  Returned(schema))
                           ELSE /\ Call(columnsEvent \o sampleEvent)
                                /\ UNCHANGED <<pool, res, pc>>
  /\ UNCHANGED <<locals, uploads, args, prompt>>
  /\ UNCHANGED <<server, aiService, allowUnsafe, req, tables, queryError, regenerated>>

----------------------------------------------------------------------------

Next ==
  \/ handleQueryExecution
  \/ initializeDatabasePool
  \/ executeQueryWithHandling
  \/ executeQuery
  \/ handleQueryRegeneration
  \/ executeRegeneratedQuery
  \/ handleQueryGeneration
  \/ handleQueryGenerationResult
  \/ handleSchemaRequest
  \/ processSchemaRequest
  \/ buildSchema

Spec == Init /\ [][Next]_vars

----------------------------------------------------------------------------
(* The prompt.  A prompt is the sequence of the pieces it is concatenated   *)
(* from: Lit is a piece of the template's own text, Sub the text of a value *)
(* substituted into it, character by character.                            *)

Lit(text) == [k |-> "lit", lit |-> text]

Sub(chars) == [k |-> "sub", sub |-> chars]

\* the value null of a sample row
Null == [t |-> "null"]

\* String.prototype.toLowerCase, of one character
ToLower(c) ==
  IF c \in Range(UpperCase)
    THEN LowerCase[CHOOSE i \in 1..Len(UpperCase) : UpperCase[i] = c]
    ELSE c

ToLowerCase(text) == [i \in 1..Len(text) |-> ToLower(text[i])]

\* String.prototype.includes
StringIncludes(text, phrase) ==
  \E i \in 0..(Len(text) - Len(phrase)) : SubSeq(text, i + 1, i + Len(phrase)) = phrase

\* the decimal digits of a natural number
RECURSIVE NatToString(_)
NatToString(n) ==
  LET digit == <<"0","1","2","3","4","5","6","7","8","9">>[(n % 10) + 1]
  IN  IF n < 10 THEN <<digit>> ELSE Append(NatToString(n \div 10), digit)

\* ${value} in a template literal: the characters of String(value)
StringOf(v) ==
  CASE v.t = "undefined" -> <<"u","n","d","e","f","i","n","e","d">>
    [] v.t = "null" -> <<"n","u","l","l">>
    [] v.t = "string" -> v.s
    [] v.t = "boolean" -> IF v.b THEN <<"t","r","u","e">> ELSE <<"f","a","l","s","e">>
    [] v.t = "number" -> NatToString(v.n)

\* the piece a substituted string contributes: none when it is empty
Interpolate(chars) == IF chars = <<>> THEN <<>> ELSE <<Sub(chars)>>

\* the categories of analyzeError in the order of its else-if chain: the
\* phrase looked for, and the corrective instruction (its first sentence)
errorCategories ==
  << [phrase |-> <<"s","y","n","t","a","x"," ","e","r","r","o","r">>,
      instruction |-> "The previous query had a syntax error."],
     [phrase |-> <<"a","m","b","i","g","u","o","u","s"," ","c","o","l","u","m","n">>,
      instruction |-> "The previous query had an ambiguous column name."],
     [phrase |-> <<"i","n","v","a","l","i","d"," ","c","o","l","u","m","n">>,
      instruction |-> "The previous query used an invalid column name."],
     [phrase |-> <<"t","a","b","l","e"," ","n","o","t"," ","f","o","u","n","d">>,
      instruction |-> "The previous query used a table name that does not exist."],
     [phrase |-> <<"g","r","o","u","p"," ","b","y">>,
      instruction |-> "The previous query used a 'GROUP BY' clause incorrectly."],
     [phrase |-> <<"i","n","c","o","r","r","e","c","t"," ","n","u","m","b","e","r"," ","o","f",
                   " ","a","r","g","u","m","e","n","t","s">>,
      instruction |-> "The previous query used a function or operator with an incorrect number of arguments."],
     [phrase |-> <<"d","o","e","s"," ","n","o","t"," ","e","x","i","s","t">>,
      instruction |-> "The previous query used a function or column that does not exist in the database or is not valid in this context."] >>

\* the else-if chain from category k on: the first category whose phrase the
\* lower-cased message includes, 0 when there is none
RECURSIVE FirstCategory(_, _)
FirstCategory(lower, k) ==
  IF k > Len(errorCategories) THEN 0
  ELSE IF StringIncludes(lower, errorCategories[k].phrase) THEN k
  ELSE FirstCategory(lower, k + 1)

GenericInstruction(errorMessage) ==
  <<Lit("The previous query generated resulted in an error: \""), Sub(errorMessage),
    Lit("\".  Please analyze the error message carefully and identify the cause of the problem.")>>

DoNotRepeat ==
  Lit(" Based on the previous error, make sure the query generated have no issue. Do not repeat the same mistake.")

\* analyzeError testing the phrases on the message as it is written
analyzeErrorCaseSensitive(errorMessage) ==
  LET k == FirstCategory(errorMessage, 1)
  IN  (IF k = 0 THEN GenericInstruction(errorMessage)
                ELSE <<Lit(errorCategories[k].instruction)>>) \o <<DoNotRepeat>>

analyzeError(errorMessage) ==
  LET k == FirstCategory(ToLowerCase(errorMessage), 1)
  IN  (IF k = 0 THEN GenericInstruction(errorMessage)
                ELSE <<Lit(errorCategories[k].instruction)>>) \o <<DoNotRepeat>>

ErrTableThenSyntax == <<"t","a","b","l","e"," ","n","o","t"," ","f","o","u","n","d",";"," ","s","y","n","t","a","x",
    " ","e","r","r","o","r">>

\* the error messages a prompt is built with: one for each category in
\* some letter case, three with the phrases of two categories, two with none
ErrorMessages ==
  { <<"Y","o","u"," ","h","a","v","e"," ","a","n"," ","e","r","r","o","r",":"," ","S","y","n","t",
      "a","x"," ","E","r","r","o","r"," ","n","e","a","r"," ","'","F","R","O","M","'">>,
    <<"A","M","B","I","G","U","O","U","S"," ","C","O","L","U","M","N"," ","i","d">>,
    <<"I","n","v","a","l","i","d"," ","c","o","l","u","m","n"," ","n","a","m","e">>,
    <<"T","a","b","l","e"," ","n","o","t"," ","f","o","u","n","d">>,
    <<"b","a","d"," ","G","R","O","U","P"," ","B","Y">>,
    <<"I","n","c","o","r","r","e","c","t"," ","n","u","m","b","e","r"," ","o","f"," ","a","r","g",
      "u","m","e","n","t","s">>,
    <<"i","t"," ","d","o","e","s"," ","n","o","t"," ","e","x","i","s","t">>,
    ErrTableThenSyntax,
    <<"d","o","e","s"," ","n","o","t"," ","e","x","i","s","t",":"," ","i","n","v","a","l","i","d",
      " ","c","o","l","u","m","n">>,
    <<"g","r","o","u","p"," ","b","y",":"," ","i","n","c","o","r","r","e","c","t"," ","n","u","m",
      "b","e","r"," ","o","f"," ","a","r","g","u","m","e","n","t","s">>,
    <<"s","y","n","t","a","x","e","r","r","o","r">>,
    <<"U","n","k","n","o","w","n"," ","c","o","l","u","m","n"," ","'","u","s","e","r","_","i","d","'">> }
\* Array.prototype.join of strings
RECURSIVE Join(_, _)
Join(strings, separator) ==
  IF Len(strings) = 0 THEN <<>>
  ELSE IF Len(strings) = 1 THEN strings[1]
  ELSE strings[1] \o separator \o Join(Tail(strings), separator)

\* the characters of a string that JSON.stringify escapes
RECURSIVE JSONescape(_)
JSONescape(chars) ==
  IF chars = <<>> THEN <<>>
  ELSE (IF Head(chars) \in {"\"", "\\"} THEN <<"\\", Head(chars)>> ELSE <<Head(chars)>>)
       \o JSONescape(Tail(chars))

\* JSON.stringify of a value of a sample row
JSONstringify(v) ==
  IF v.t = "string" THEN <<"\"">> \o JSONescape(v.s) \o <<"\"">> ELSE StringOf(v)

formatColumnInfo(col) ==
  StringOf(col.name) \o <<" ", "(">> \o StringOf(col.type) \o <<")">>
  \o (IF col.key = Str(<<"P","R","I">>) THEN <<" ","P","R","I","M","A","R","Y"," ","K","E","Y">> ELSE <<>>)

\* `${key}: ${value === null ? 'NULL' : JSON.stringify(value)}`
formatSampleEntry(entry) ==
  entry.key \o <<":", " ">>
  \o (IF entry.value = Null THEN <<"N","U","L","L">> ELSE JSONstringify(entry.value))

\* formatTableSchema of GeminiService and OpenAIService (db.service.ts), and of
\* the first GeminiService (gemini.service.ts), which formats no sample data.
\* sampleData is the sequence of the entries (Object.entries) of the row.
formatTableSchema(service, table) ==
  LET columns == Join([i \in 1..Len(table.columns) |-> formatColumnInfo(table.columns[i])],
                      <<",", " ">>)
      schemaInfo == <<"T","a","b","l","e"," ">> \o StringOf(table.tableName) \o <<":", " ">> \o columns
      entries == table.sampleData.o
      sampleDataStr == Join([i \in 1..Len(entries) |-> formatSampleEntry(entries[i])],
                            <<",", " ">>)
  IN  IF /\ service # GeminiServiceV1
         /\ Truthy(table.sampleData)
         /\ Len(entries) > 0
        THEN schemaInfo \o <<"\n","S","a","m","p","l","e"," ","D","a","t","a",":"," ","{"," ">>
             \o sampleDataStr \o <<" ", "}">>
        ELSE schemaInfo

\* schema.map(this.formatTableSchema).join('\n')
SchemaInfo(service, schema) ==
  Join([i \in 1..Len(schema.a) |-> formatTableSchema(service, schema.a[i])], <<"\n">>)
\* the versions of generatePromptTemplate
TemplatePrompt == "prompt.constant"        \* prompt.constant.ts 182-209

TemplateEarly == "gemini.constant.early"   \* gemini.constant.ts 127-155

TemplateLate == "gemini.constant"          \* gemini.constant.ts 383-409

\* the version a service is built with: OpenAIService imports
\* prompt.constant.ts, GeminiService one of the two of gemini.constant.ts;
\* the first GeminiService has its own generatePrompt
Templates(service) ==
  CASE service = OpenAIService -> {TemplatePrompt}
    [] service = GeminiService -> {TemplateEarly, TemplateLate}
    [] OTHER -> {"none"}

\* getReferenceContext
getReferenceContext(referenceText) ==
  IF Truthy(referenceText)
    THEN <<Lit("REFERENCE DOCUMENT:\n"), Sub(StringOf(referenceText)), Lit("\n\n")>>
    ELSE <<>>

\* the chart example of getChartDetails and getChartConfigExample, the columns
\* of the example left out
chartExample(template, chartType) ==
  LET known == IF template = TemplateEarly THEN EarlyChartTypes ELSE AllChartTypes
  IN  IF chartType.s[1] \in known
        THEN <<Lit("{ \"type\": \""), Sub(chartType.s), Lit("\", ... }")>>
        ELSE <<Lit("{}")>>

\* the chart context of getChartDetails and generateChartContext
chartContext(template, chartType) ==
  IF ~Truthy(chartType) THEN <<Lit("The results will not be visualized.")>>
  ELSE IF template # TemplateEarly /\ chartType.s = <<"any">>
    THEN <<Lit("The results should be visualized as a chart. Choose an appropriate chart type supported by Chart.js based on the query results.")>>
  ELSE <<Lit("The results should be visualized as a "), Sub(chartType.s),
         Lit(" chart. Make sure the SQL query returns data in a format suitable for this chart type.")>>

RulesText ==
  "RULES:\n1. No markdown/code blocks\n2. Double quotes in JSON\n3. isUnsafe=true for UPDATE/DELETE\n4. Efficient JOINs\n5. Valid SQL syntax"

\* getPromptRules
getPromptRules(template, chartType) ==
  (IF Truthy(chartType)
     THEN <<Lit("FORMAT:\n{ \"sql\": \"query\", \"isUnsafe\": false, \"explanation\": \"brief\", \"chartConfig\": ")>>
          \o chartExample(template, chartType) \o <<Lit("\n}\n\n")>>
     ELSE <<Lit("FORMAT:\n{ \"sql\": \"query\", \"isUnsafe\": false, \"explanation\": \"brief\" }\n\n")>>)
  \o <<Lit(RulesText)>>
  \o (IF ~Truthy(chartType) THEN <<>>
      ELSE IF template = TemplateEarly
        THEN <<Lit("\n6. Query results must be suitable for the requested chart type")>>
      ELSE <<Lit("\n6. Query results must be suitable for the requested chart type. ")>>
           \o chartContext(template, chartType))

Preamble ==
  Lit("You are a Data Analyst with MySQL expertise. ... Return ONLY a valid JSON object.\n\n  Database Schema:\n  ")

\* the last lines of the templates of prompt.constant.ts and of the earlier
\* gemini.constant.ts: the previous error, whatever errorMessage is
PreviousError(template, errorMessage) ==
  <<Lit(IF template = TemplatePrompt
          THEN "The previous attempt on generating SQL query resulting in this error: "
          ELSE "The previous attempt on generating SQL query resulting in this error "),
    Sub(StringOf(errorMessage)),
    Lit(".\n  Avoid getting into the same error again.")>>

\* generatePromptTemplate, in its three versions
generatePromptTemplate(template, schemaInfo, question, referenceContext, chartType, errorMessage) ==
  <<Preamble>> \o Interpolate(schemaInfo) \o <<Lit("\n\n  ")>>
  \o (CASE template = TemplatePrompt ->
             <<Lit("Additional Context: ")>> \o Interpolate(StringOf(referenceContext))
        [] template = TemplateEarly -> Interpolate(StringOf(referenceContext))
        [] OTHER -> getReferenceContext(referenceContext))
  \o <<Lit("\n\n  User Question: ")>> \o Interpolate(StringOf(question)) \o <<Lit(" ")>>
  \o (IF template = TemplateEarly THEN chartContext(template, chartType) ELSE <<>>)
  \o <<Lit("\n\n  ")>> \o getPromptRules(template, chartType) \o <<Lit("\n  \n  ")>>
  \o (IF template = TemplateLate
        THEN IF Truthy(errorMessage) THEN analyzeError(StringOf(errorMessage)) ELSE <<>>
        ELSE PreviousError(template, errorMessage))

\* generatePrompt of the first GeminiService
generatePrompt(schema, question, referenceText) ==
  <<Preamble>> \o Interpolate(SchemaInfo(GeminiServiceV1, schema)) \o <<Lit("\n\n    ")>>
  \o getReferenceContext(referenceText)
  \o <<Lit("\n\n    User Question: ")>> \o Interpolate(StringOf(question)) \o <<Lit("\n\n    ")>>
  \o <<Lit("FORMAT:\n{ \"sql\": \"query\", \"isUnsafe\": false, \"explanation\": \"brief\" }\n\n"),
       Lit(RulesText)>>

\* generateErrorFixPrompt of the first GeminiService
generateErrorFixPrompt(schema, question, errorMessage) ==
  <<Lit("You are a MySQL expert. ... fixes the error from a previous attempt.\n\n    Database Schema:\n    ")>>
  \o Interpolate(SchemaInfo(GeminiServiceV1, schema))
  \o <<Lit("\n\n    User Question: ")>> \o Interpolate(StringOf(question))
  \o <<Lit("\n\n    Previous Error: ")>> \o Interpolate(StringOf(errorMessage))
  \o <<Lit("\n\n    Please generate a valid SQL query that: ...")>>

\* The prompt that generateQuery calls generateContent with
PromptOfGenerateQuery(a) ==
  IF a.service = GeminiServiceV1
    THEN IF Truthy(a.errorMessage)
           THEN generateErrorFixPrompt(a.schema, a.question, a.errorMessage)
           ELSE generatePrompt(a.schema, a.question, a.referenceText)
    ELSE generatePromptTemplate(a.template, SchemaInfo(a.service, a.schema), a.question,
                                a.referenceText, a.chartType, a.errorMessage)
\* the inputs of the prompt: tables, sample rows, reference text
\* the sample rows of table orders: none, {}, {id: 1, total: null},
\* {id: 42, note: "a\"b", paid: true}
SampleRows ==
  { Undefined,
    Obj(<<>>),
    Obj(<<[key |-> <<"i","d">>, value |-> Num(1)],
          [key |-> <<"t","o","t","a","l">>, value |-> Null]>>),
    Obj(<<[key |-> <<"i","d">>, value |-> Num(42)],
          [key |-> <<"n","o","t","e">>, value |-> Str(<<"a","\"","b">>)],
          [key |-> <<"p","a","i","d">>, value |-> Bool(TRUE)]>>) }

TableOrders(sampleData) ==
  [tableName |-> Str(<<"o","r","d","e","r","s">>), 
   columns |-> <<[name |-> Str(<<"i","d">>), type |-> Str(<<"I","N","T">>),
                  key |-> Str(<<"P","R","I">>)],
                 [name |-> Str(<<"t","o","t","a","l">>),
                  type |-> Str(<<"D","E","C","I","M","A","L">>), key |-> Undefined]>>,
   sampleData |-> sampleData]

TableUsers ==
  [tableName |-> Str(<<"u","s","e","r","s">>), 
   columns |-> <<[name |-> Str(<<"o","r","g","_","i","d">>), type |-> Str(<<"I","N","T">>),
                  key |-> Str(<<"M","U","L">>)]>>,
   sampleData |-> Undefined]

PromptArgs ==
  { a \in [service : {GeminiService, OpenAIService, GeminiServiceV1},
           template : {TemplatePrompt, TemplateEarly, TemplateLate, "none"},
           schema : {Arr(<<TableOrders(row)>>) : row \in SampleRows}
                    \cup {Arr(<<TableUsers, TableOrders(row)>>) : row \in SampleRows},
           question : {Str(<<"q">>)},
           referenceText : {Undefined,
                            Str(<<"o","r","d","e","r","s",".","t","o","t","a","l"," ",
                                  "i","s"," ","i","n"," ","E","U","R">>)},
           chartType : {Undefined, Str(<<"pie">>), Str(<<"any">>)},
           errorMessage : {Undefined} \cup {Str(m) : m \in ErrorMessages}] :
      a.template \in Templates(a.service) }

\* the variables of the handling of a request
requestVars ==
  <<server, aiService, allowUnsafe, req, pc, pool, queryError, regenerated,
    tables, builtSchema, calls, res>>

\* a call of generateQuery with arguments that pass its validation
PromptInit ==
  /\ args \in PromptArgs
  /\ prompt = <<>>
  /\ server = "none"
  /\ aiService = args.service
  /\ allowUnsafe = "undefined"
  /\ req = [endpoint |-> "none"]
  /\ pc = "generateQuery"
  /\ pool = NoPool
  /\ queryError = NoError
  /\ regenerated = Undefined
  /\ tables = <<>>
  /\ builtSchema = <<>>
  /\ calls = <<>>
  /\ res = <<>>
  /\ locals = Undefined
  /\ uploads = <<>>

\* generateQuery up to its call of generateContent: the prompt is built
buildPrompt ==
  /\ args # NoArgs
  /\ prompt = <<>>
  /\ prompt' = PromptOfGenerateQuery(args)
  /\ UNCHANGED <<requestVars, locals, uploads, args>>

PromptNext == buildPrompt

PromptSpec == PromptInit /\ [][PromptNext]_vars

----------------------------------------------------------------------------
(* POST /api/upload-document, and a generate-query request of another      *)
(* caller that is handled in the same process.  Every request handler runs *)
(* up to its next await in one step; the steps of the requests interleave. *)

DocA == <<"d","o","c"," ","A">>

DocB == <<"d","o","c"," ","B">>

\* the files of the upload requests: none, an image, a text file, a PDF, and
\* a text file whose extension extractTextFromFile does not support
UploadedFiles ==
  { [present |-> FALSE],
    [present |-> TRUE, mimetype |-> "image/png", ext |-> ".png", text |-> DocA],
    [present |-> TRUE, mimetype |-> "text/plain", ext |-> ".txt", text |-> DocA],
    [present |-> TRUE, mimetype |-> "application/pdf", ext |-> ".pdf", text |-> DocB],
    [present |-> TRUE, mimetype |-> "text/plain", ext |-> ".md", text |-> DocB] }

allowedMimeTypes ==
  { "application/pdf", "text/plain",
    "application/vnd.openxmlformats-officedocument.wordprocessingml.document" }

supportedExtensions == {".txt", ".pdf", ".docx", ".pptx"}

\* the number of upload requests in one behaviour
MaxUploads == 2

\* the ways extractTextFromFile ends for a file: its text, or an error
ExtractionOutcomes(file) ==
  IF file.ext \notin supportedExtensions
    THEN {Threw(<<"Unsupported file type">>)}
    ELSE {Returned(file.text), Threw(<<"ENOENT: no such file or directory">>)}

\* the upload handler up to its await of extractTextFromFile
uploadDocument ==
  /\ Len(uploads) < MaxUploads
  /\ \E file \in UploadedFiles :
       uploads' = Append(uploads,
         IF ~file.present
           THEN [file |-> file, pc |-> "done", status |-> 400,
                 error |-> <<"No file uploaded">>]
         ELSE IF file.mimetype \notin allowedMimeTypes
           THEN [file |-> file, pc |-> "done", status |-> 400,
                 error |-> <<"Unsupported file type">>]
         ELSE [file |-> file, pc |-> "extractTextFromFile", status |-> 0, error |-> <<>>])
  /\ UNCHANGED <<requestVars, locals, args, prompt>>

\* the await of extractTextFromFile in an upload handler ends: the text is
\* stored in app.locals.referenceText and returned, or the error is answered
extractTextFromFile ==
  \E i \in 1..Len(uploads) :
    /\ uploads[i].pc = "extractTextFromFile"
    /\ \E out \in ExtractionOutcomes(uploads[i].file) :
         IF out.ok
           THEN /\ locals' = Str(out.value)
                /\ uploads' = [uploads EXCEPT ![i].pc = "done", ![i].status = 200]
           ELSE /\ uploads' = [uploads EXCEPT ![i].pc = "done", ![i].status = 520,
                                              ![i].error = out.error]
                /\ UNCHANGED locals
    /\ UNCHANGED <<requestVars, args, prompt>>

\* the generate-query requests handled while documents are uploaded
ConcurrentGenerateRequests ==
  [endpoint : {"generate"}, schema : {Arr(<<TableUsers>>)},
   question : {Str(<<"q">>)}, error : {Undefined},
   referenceText : {Undefined, Str(<<"o","w","n"," ","d","o","c">>)}, chartType : {Undefined}]

UploadInit ==
  /\ server = ServerPlain
  /\ aiService = GeminiService
  /\ allowUnsafe = "undefined"
  /\ req \in ConcurrentGenerateRequests
  /\ pc = "start"
  /\ pool = NoPool
  /\ queryError = NoError
  /\ regenerated = Undefined
  /\ tables = <<>>
  /\ builtSchema = <<>>
  /\ calls = <<>>
  /\ res = <<>>
  /\ locals = Undefined
  /\ uploads = <<>>
  /\ args = NoArgs
  /\ prompt = <<>>

UploadNext ==
  \/ uploadDocument
  \/ extractTextFromFile
  \/ handleQueryGeneration
  \/ handleQueryGenerationResult

UploadSpec == UploadInit /\ [][UploadNext]_vars

----------------------------------------------------------------------------
(* The claims.                                                             *)

\* the positions in calls of the calls of op
Indices(op) == {i \in 1..Len(calls) : calls[i].op = op}

\* the calls of op made before call i
Before(op, i) == {j \in Indices(op) : j < i}

UnsafeAllowed == allowUnsafe = "true"

\* C1: every SQL statement the execute flow runs has passed the safety check
\* before: the submitted query with the request's isUnsafe, the regenerated
\* query with the isUnsafe that generateQuery returned for it.  So while
\* unsafe queries are not allowed, no regenerated query whose isUnsafe is true
\* is executed.
C1_EveryExecutionPassesSafetyCheck ==
  \A i \in Indices("query") :
    LET gens == Before("generateQuery", i)
        flag == IF gens = {}
                  THEN req.isUnsafe
                  ELSE calls[CHOOSE g \in gens : TRUE].returned.value.isUnsafe
    IN  ~(Truthy(flag) /\ ~UnsafeAllowed)

\* C2: one execute request calls generateQuery at most twice and runs at most
\* two queries, whatever errors the database returns.
C2_AtMostTwoGenerationsAndExecutions ==
  req.endpoint = "execute" =>
    /\ Cardinality(Indices("generateQuery")) <= 2
    /\ Cardinality(Indices("query")) <= 2

C2_BothExecutionsFailed ==
  /\ req.endpoint = "execute"
  /\ pc = "done"
  /\ Cardinality(Indices("query")) = 2
  /\ \A i \in Indices("query") : calls[i].kind # "rows"

\* C3: while unsafe queries are not allowed, no SQL text that contains DROP,
\* TRUNCATE, ALTER, DELETE or UPDATE as a whole word, in any letter case, is
\* sent to the database by the execute-query endpoint, whatever isUnsafe the
\* request body carries.
C3_NoUnsafeKeywordReachesDatabase ==
  (req.endpoint = "execute" /\ ~UnsafeAllowed) =>
    \A i \in Indices("query") : ~checkUnsafeOperations(calls[i].sql)

\* C4: an execute request with isUnsafe = true, while unsafe queries are not
\* allowed, ends at once in a failure response: no pool is created, no SQL is
\* run and generateQuery is not called.
C4_UnsafeRequestEndsImmediately ==
  (req.endpoint = "execute" /\ Truthy(req.isUnsafe) /\ ~UnsafeAllowed) =>
    /\ calls = <<>>
    /\ ~pool.created
    /\ pc \in {"start", "done"}
    /\ pc = "done" => Len(res) = 1 /\ res[1].body.success = FALSE

C4_UnsafeRequestRejected ==
  /\ req.endpoint = "execute"
  /\ Truthy(req.isUnsafe)
  /\ ~UnsafeAllowed
  /\ pc = "done"
  /\ Len(res) = 1
  /\ res[1].body.success = FALSE

\* C5: when the first execution fails and the request carries schema and
\* question, generateQuery is called exactly once, after that failure and
\* before any second execution, with the message of that failure as the prior
\* error, and a second execution runs the SQL that call returned.
C5_OneRegenerationBetweenExecutions ==
  \A q \in Indices("query") :
    ( /\ server = ServerRegen
      /\ Before("query", q) = {}
      /\ calls[q].kind # "rows"
      /\ Truthy(req.schema)
      /\ Truthy(req.question) ) =>
      /\ Cardinality(Indices("generateQuery")) <= 1
      /\ pc = "done" => Cardinality(Indices("generateQuery")) = 1
      /\ \A g \in Indices("generateQuery") :
           /\ q < g
           /\ calls[g].errorMessage = Str(calls[q].message)
           /\ \A r \in Indices("query") \ {q} :
                /\ g < r
                /\ calls[g].returned.ok
                /\ calls[r].sql = calls[g].returned.value.sql.s

C5_RegeneratedQueryExecuted ==
  /\ server = ServerRegen
  /\ pc = "done"
  /\ \E q \in Indices("query") : \E g \in Indices("generateQuery") :
       \E r \in Indices("query") :
         /\ q < g /\ g < r
         /\ calls[q].kind = "sql"
         /\ calls[r].sql = SqlSelectB

\* C6: when the regeneration attempt fails (generateQuery fails, or the
\* regenerated query fails on execution) the request ends there with one
\* failure response: error is the error of the regeneration attempt and
\* originalError is the message of the first execution error.
C6_RegenerationFailureCarriesBothErrors ==
  (req.endpoint = "execute" /\ pc = "done" /\ Indices("generateQuery") # {}) =>
    LET g == CHOOSE g \in Indices("generateQuery") : TRUE
        first == CHOOSE q \in Indices("query") : q < g
        second == {r \in Indices("query") : r > g}
        failedGeneration == ~calls[g].returned.ok
        failedExecution == \E r \in second : calls[r].kind # "rows"
    IN  (failedGeneration \/ failedExecution) =>
          /\ Len(res) = 1
          /\ DOMAIN res[1].body = {"success", "error", "originalError"}
          /\ res[1].body.success = FALSE
          /\ res[1].body.originalError = calls[first].message
          /\ res[1].body.error =
               IF failedGeneration
                 THEN calls[g].returned.error
                 ELSE calls[CHOOSE r \in second : TRUE].message
          /\ Cardinality(Indices("generateQuery")) = 1
          /\ Cardinality(second) <= 1

C6_RegenerationFailed ==
  /\ req.endpoint = "execute"
  /\ pc = "done"
  /\ \E g \in Indices("generateQuery") : ~calls[g].returned.ok
  /\ Len(res) = 1
  /\ "originalError" \in DOMAIN res[1].body

\* C7: a successful response of the execute flow has regeneratedQuery
\* {sql, explanation} and originalError exactly when the first execution failed
\* and the re-execution succeeded, and originalError is then the message of the
\* first execution error; when the first execution succeeds the response is
\* {success: true, results}.
C7_SuccessResponseShape ==
  (req.endpoint = "execute" /\ pc = "done" /\ Len(res) >= 1 /\ res[1].body.success) =>
    LET body == res[1].body
        first == CHOOSE q \in Indices("query") : Before("query", q) = {}
        reexecuted ==
          /\ calls[first].kind # "rows"
          /\ \E r \in Indices("query") : r # first /\ calls[r].kind = "rows"
    IN  /\ ("regeneratedQuery" \in DOMAIN body) <=> reexecuted
        /\ ("originalError" \in DOMAIN body) <=> reexecuted
        /\ reexecuted =>
             LET made == calls[CHOOSE g \in Indices("generateQuery") : TRUE].returned.value
             IN  /\ body.originalError = calls[first].message
                 /\ body.regeneratedQuery =
                      [sql |-> made.sql, explanation |-> made.explanation]
        /\ calls[first].kind = "rows" => body = [success |-> TRUE, results |-> Rows]

C7_RegeneratedQuerySucceeded ==
  /\ req.endpoint = "execute"
  /\ pc = "done"
  /\ Len(res) = 1
  /\ res[1].body.success
  /\ "regeneratedQuery" \in DOMAIN res[1].body

\* C8: handleQueryGeneration calls the provider at most once per request; when
\* the provider call, the parsing or the validation of the reply fails, the
\* failure is answered as an error object and nothing is generated again.
C8_GenerationCallsProviderAtMostOnce ==
  req.endpoint = "generate" =>
    /\ Cardinality(Indices("generateContent")) <= 1
    /\ Cardinality(Indices("generateQuery")) <= 1
    /\ \A g \in Indices("generateQuery") :
         ~calls[g].returned.ok =>
           /\ pc = "done"
           /\ Len(res) = 1
           /\ res[1].status \in {400, 500}
           /\ res[1].body = [error |-> calls[g].returned.error]

C8_ReplyWithoutExplanationSurfaced ==
  /\ req.endpoint = "generate"
  /\ pc = "done"
  /\ Cardinality(Indices("generateContent")) = 1
  /\ Len(res) = 1
  /\ res[1].body =
       [error |-> WrapGenerationError(<<"Invalid response format from ", "Gemini", " API">>)]

\* C9: whenever the database cannot be reached, in whichever step of the
\* execute request, the request ends with a failure response and generateQuery
\* is not called afterwards.
C9_ConnectivityFailureNeverRegenerates ==
  \A i \in 1..Len(calls) :
    ( /\ req.endpoint = "execute"
      /\ \/ (calls[i].op = "getConnection" /\ ~calls[i].ok)
         \/ (calls[i].op = "query" /\ calls[i].kind = "conn") ) =>
      /\ \A g \in Indices("generateQuery") : g < i
      /\ pc = "done" => Len(res) >= 1 /\ res[1].body.success = FALSE

EmptySchema(schema) ==
  schema.t = "undefined" \/ (schema.t = "array" /\ Len(schema.a) = 0)

BlankQuestion(question) ==
  \/ question.t = "undefined"
  \/ question.t = "string" /\ \A i \in 1..Len(question.s) : IsSpace(question.s[i])

\* C10: every call of generateQuery with an empty or missing schema, or with a
\* question that is empty or only whitespace, fails with a validation error
\* and makes no call to the provider, with or without a prior error message.
C10_InvalidInputsFailBeforeProvider ==
  \A g \in Indices("generateQuery") :
    (EmptySchema(calls[g].schema) \/ BlankQuestion(calls[g].question)) =>
      /\ ~calls[g].returned.ok
      /\ Includes(calls[g].returned.error, "required")
      /\ ~(g < Len(calls) /\ calls[g + 1].op = "generateContent")

\* the reply of the provider to call g of generateQuery
ReplyTo(g) == calls[g + 1].reply

\* the JSON object of a reply that parsed
ParsedReply(g) == JSONparse(cleanResponse(ReplyTo(g).text)).value

\* C11 as stated: for every reply that parses and validates, generateQuery
\* returns isUnsafe = true whenever the text of the reply (its sql or its
\* explanation) contains DROP, TRUNCATE, ALTER, DELETE or UPDATE as a whole
\* word in any letter case, and a reported true is never lowered.
C11_KeywordInReplyTextMakesUnsafe ==
  \A g \in Indices("generateQuery") :
    calls[g].returned.ok =>
      LET reply == ParsedReply(g)
          derived == calls[g].returned.value.isUnsafe
      IN  /\ ( \/ checkUnsafeOperations(reply.sql.s)
               \/ checkUnsafeOperations(reply.explanation.s) ) => derived = Bool(TRUE)
          /\ reply.isUnsafe = Bool(TRUE) => derived = Bool(TRUE)

\* C11 amended: for every reply that parses and validates, generateQuery
\* returns isUnsafe = true exactly when the reply reports isUnsafe = true or
\* the sql of the reply contains DROP, TRUNCATE, ALTER, DELETE or UPDATE as a
\* whole word in any letter case; the other fields are returned as replied.
C11_DerivedUnsafeIsReportedOrKeywordInSql ==
  \A g \in Indices("generateQuery") :
    calls[g].returned.ok =>
      LET reply == ParsedReply(g)
          made == calls[g].returned.value
      IN  /\ made.isUnsafe = Bool(reply.isUnsafe.b \/ checkUnsafeOperations(reply.sql.s))
          /\ made.sql = reply.sql
          /\ made.explanation = reply.explanation

C11_ReportedSafeDropReturnedUnsafe ==
  \E g \in Indices("generateQuery") :
    /\ calls[g].returned.ok
    /\ ParsedReply(g).sql = Str(SqlDrop)
    /\ ParsedReply(g).isUnsafe = Bool(FALSE)
    /\ calls[g].returned.value.isUnsafe = Bool(TRUE)

\* C12: validateQuerySafety fails exactly when isUnsafe is true and
\* ALLOW_UNSAFE_QUERIES is not 'true' (unset included): a handler that reaches
\* the safety check answers with the unsafe-queries error, before any pool is
\* created, in that case and in no other.
C12_SafetyCheckFailsExactlyWhenUnsafeAndNotAllowed ==
  ( /\ req.endpoint = "execute"
    /\ pc # "start"
    /\ (server = ServerRegen \/ validateDatabaseConfig(req.config) = <<>>) ) =>
    LET failed == /\ pc = "done"
                  /\ calls = <<>>
                  /\ Len(res) = 1
                  /\ res[1].body.error = UnsafeQueriesMessage
    IN  failed <=> (req.isUnsafe = Bool(TRUE) /\ allowUnsafe # "true")

C12_UnsafeQueryAllowedAndExecuted ==
  /\ req.endpoint = "execute"
  /\ req.isUnsafe = Bool(TRUE)
  /\ allowUnsafe = "true"
  /\ \E i \in Indices("query") : calls[i].kind = "rows"

\* C13: every pool created while a schema request or an execute request is
\* handled has been ended when the handler finishes, on every exit path.
C13_EveryPoolClosedWhenHandlerFinishes ==
  (req.endpoint \in {"schema", "execute"} /\ pc = "done" /\ pool.created) =>
    pool.ends >= 1

\* C14: whatever the outcomes of pool creation, connectivity probe, query
\* execution, regeneration, re-execution and pool closing, handleQueryExecution
\* answers the request exactly once: it has answered when it finishes, and it
\* never answers a second time.
C14_ExactlyOneResponsePerExecuteRequest ==
  req.endpoint = "execute" =>
    /\ Len(res) <= 1
    /\ pc = "done" => Len(res) = 1

\* the call of getSampleData for a table
SampleFetch(table) == calls[CHOOSE e \in Indices("getSampleData") : calls[e].table = table]

\* C15: a failure of a table's sample-row query is not fatal.  The schema
\* under construction has one entry per table read so far, in the order of
\* discovery, with sampleData absent when the table's sample query failed or
\* returned no row and present (the first row) otherwise; and when the
\* connection, the table list and every column query succeed, the schema
\* returned has one entry for every discovered table, whichever sample
\* queries failed.
C15_SampleFailureIsNotFatal ==
  (req.endpoint = "schema" /\ HasSampleData(server)) =>
    /\ Len(builtSchema) = Cardinality(Indices("getSampleData"))
    /\ Len(builtSchema) <= Len(tables)
    /\ \A i \in 1..Len(builtSchema) :
         /\ builtSchema[i].tableName = tables[i]
         /\ builtSchema[i].sampleData =
              IF SampleFetch(tables[i]).kind = "rows" /\ Len(SampleFetch(tables[i]).out.rows) > 0
                THEN Obj(SampleFetch(tables[i]).out.rows[1])
                ELSE Undefined
    /\ ( /\ pc = "done"
         /\ tables # <<>>
         /\ \A c \in Indices("getTableColumns") : calls[c].kind = "rows"
         /\ ~pool.endRejects ) =>
         /\ res[1].status = 200
         /\ res[1].body.schema = builtSchema
         /\ Len(builtSchema) = Len(tables)

C15_SchemaReturnedAfterFailedSampleFetch ==
  /\ req.endpoint = "schema"
  /\ pc = "done"
  /\ Len(tables) = 2
  /\ Len(res) = 1
  /\ res[1].status = 200
  /\ Len(res[1].body.schema) = 2
  /\ SampleFetch(tables[1]).kind = "sql"
  /\ SampleFetch(tables[2]).kind = "rows"
  /\ res[1].body.schema[1].sampleData = Undefined
  /\ res[1].body.schema[2].sampleData = Obj([id |-> 1])

\* C16: a schema request fails with an error, and returns no schema, when the
\* connectivity probe fails and when the table list or the columns of a table
\* cannot be read; no empty or partial schema is returned instead.
C16_IntrospectionFailureFailsTheRequest ==
  ( /\ req.endpoint = "schema"
    /\ pc = "done"
    /\ \/ \E i \in Indices("getConnection") : ~calls[i].ok
       \/ \E i \in Indices("getTables") : calls[i].kind # "rows"
       \/ \E i \in Indices("getTableColumns") : calls[i].kind # "rows" ) =>
    /\ Len(res) = 1
    /\ res[1].status # 200
    /\ "schema" \notin DOMAIN res[1].body

NonEmptyString(v) == v.t = "string" /\ Len(v.s) > 0

\* the fields a QueryResult must have
WellFormed(result) ==
  /\ NonEmptyString(result.sql)
  /\ result.isUnsafe.t = "boolean"
  /\ NonEmptyString(result.explanation)

\* call g of generateQuery got a reply from the provider, and it parsed
ReplyParsed(g) ==
  /\ g < Len(calls)
  /\ calls[g + 1].op = "generateContent"
  /\ ~ReplyTo(g).throws
  /\ JSONparse(cleanResponse(ReplyTo(g).text)).ok

\* C17: every QueryResult that generateQuery returns has a non-empty string
\* sql, a boolean isUnsafe and a non-empty string explanation; on a reply
\* that lacks one of these fields, or has it with a wrong type, generateQuery
\* fails and returns nothing.
C17_ReturnedQueryResultIsWellFormed ==
  \A g \in Indices("generateQuery") :
    /\ calls[g].returned.ok => WellFormed(calls[g].returned.value)
    /\ (ReplyParsed(g) /\ ~WellFormed(ParsedReply(g))) =>
         /\ ~calls[g].returned.ok
         /\ calls[g].returned.error =
              WrapGenerationError(<<"Invalid response format from ", apiName(aiService), " API">>)

C17_ReplyWithEmptySqlRejected ==
  \E g \in Indices("generateQuery") :
    /\ ReplyParsed(g)
    /\ ParsedReply(g).sql = Str(<<>>)
    /\ ParsedReply(g).isUnsafe = Bool(FALSE)
    /\ NonEmptyString(ParsedReply(g).explanation)
    /\ ~calls[g].returned.ok

\* C18: on a reply whose required fields are valid, validateQueryResult
\* accepts a chartConfig whose type is one of pie, line, bar, doughnut,
\* polarArea, radar, scatter, bubble, mixed, any (the types validateQueryRequest
\* accepts in a request) and rejects every other type.
C18_ReplyChartTypesAcceptedAsInRequests ==
  \A g \in Indices("generateQuery") :
    ( /\ ReplyParsed(g)
      /\ WellFormed(ParsedReply(g))
      /\ Truthy(ParsedReply(g).chartConfig) ) =>
      (calls[g].returned.ok <=> ParsedReply(g).chartConfig.o.type \in AllChartTypes)

\* C19: a generate-query request whose chartType is present and is not one of
\* pie, line, bar, doughnut, polarArea, radar, scatter, bubble, mixed, any is
\* rejected before any call of generateQuery or of the provider; a request
\* with schema and question whose chartType is in that set reaches
\* generateQuery with that chartType.
C19_ChartTypeCheckedBeforeProvider ==
  (req.endpoint = "generate" /\ req.chartType.t = "string") =>
    IF req.chartType.s[1] \in AllChartTypes
      THEN (Truthy(req.schema) /\ Truthy(req.question) /\ pc = "done") =>
             \E g \in Indices("generateQuery") : calls[g].chartType = req.chartType
      ELSE /\ calls = <<>>
           /\ pc \in {"start", "done"}
           /\ pc = "done" => Len(res) = 1 /\ res[1].status \in {400, 500}

\* C20: an execute request that the safety check rejects is answered with
\* status 403, and one that fails in any other way with status 500.
C20_SafetyRejectionHasItsOwnStatus ==
  (req.endpoint = "execute" /\ pc = "done") =>
    \A k \in 1..Len(res) :
      ~res[k].body.success =>
        res[k].status = IF res[k].body.error = UnsafeQueriesMessage THEN 403 ELSE 500

\* C21: handleQueryGeneration answers every failure caused by the caller's
\* input (schema missing or empty, question missing or blank, chart type not
\* recognized) with status 400, and every other failure (provider, parse,
\* validation of the reply) with status 500.  Stated of the handler of
\* server.ts and part_003, which validate with validateQueryRequest of
\* server.constant.ts.
C21_ValidationFailuresGet400OthersGet500 ==
  (req.endpoint = "generate" /\ server \in {ServerPlain, ServerMulti} /\ pc = "done") =>
    /\ Len(res) = 1
    /\ IF \/ EmptySchema(req.schema)
          \/ BlankQuestion(req.question)
          \/ Truthy(req.chartType) /\ req.chartType.s[1] \notin AllChartTypes
         THEN res[1].status = 400
         ELSE res[1].status \in {200, 500}

\* the pieces of the prompt
Pieces == Range(prompt)

\* category k's phrase occurs in the prompt's error message, ignoring case
Occurs(k) ==
  StringIncludes(ToLowerCase(args.errorMessage.s), errorCategories[k].phrase)


\* C22: analyzeError picks the instruction of the first category, in the
\* order syntax error, ambiguous column, invalid column, table not found,
\* group by, incorrect number of arguments, does not exist, whose phrase occurs
\* in the error message ignoring letter case; the earliest category wins when
\* several phrases occur, and when none occurs the generic instruction that
\* quotes the error message is used.
C22_FirstCategoryInOrderDecides ==
  (prompt # <<>> /\ args.template = TemplateLate /\ Truthy(args.errorMessage)) =>
    /\ \A k \in 1..Len(errorCategories) :
         Lit(errorCategories[k].instruction) \in Pieces
           <=> (Occurs(k) /\ \A j \in 1..(k - 1) : ~Occurs(j))
    /\ (\E i \in 1..(Len(prompt) - 1) :
          /\ prompt[i] = Lit("The previous query generated resulted in an error: \"")
          /\ prompt[i + 1] = Sub(args.errorMessage.s))
         <=> \A k \in 1..Len(errorCategories) : ~Occurs(k)
    /\ prompt[Len(prompt)] = DoNotRepeat

C22_EarlierCategoryWinsOverEarlierPhrase ==
  /\ args.template = TemplateLate
  /\ args.errorMessage = Str(ErrTableThenSyntax)
  /\ Lit("The previous query had a syntax error.") \in Pieces
  /\ Lit("The previous query used a table name that does not exist.") \notin Pieces

\* the labels the templates put before the reference text
\* C23: the prompt embeds the reference text verbatim under the label
\* REFERENCE DOCUMENT when referenceText is present; when it is absent the
\* prompt has no reference section: no label, no empty section, no
\* placeholder text.  Stated of the templates of prompt.constant.ts and of
\* gemini.constant.ts 383-409.
C23_ReferenceSectionExactlyWhenPresent ==
  (prompt # <<>> /\ args.template \in {TemplatePrompt, TemplateLate}) =>
    IF Truthy(args.referenceText)
      THEN \E i \in 1..(Len(prompt) - 1) :
             /\ prompt[i] = Lit("REFERENCE DOCUMENT:\n")
             /\ prompt[i + 1] = Sub(args.referenceText.s)
      ELSE /\ Pieces \cap {Lit("REFERENCE DOCUMENT:\n"), Lit("Additional Context: ")} = {}
           /\ Sub(StringOf(Undefined)) \notin Pieces

\* a text substituted into the prompt includes chars
PromptIncludes(chars) ==
  \E p \in Pieces : p.k = "sub" /\ StringIncludes(p.sub, chars)

\* C24: for every table of the schema the prompt contains the table name,
\* each column as 'name (type)', followed by ' PRIMARY KEY' exactly for the
\* primary-key columns, and, when the table has a sample row, each entry of
\* the row as 'key: value', with null as NULL and any other value
\* JSON-encoded.
C24_PromptDescribesEveryTable ==
  prompt # <<>> =>
    \A i \in 1..Len(args.schema.a) :
      LET table == args.schema.a[i]
          ColumnText(col) == col.name.s \o <<" ", "(">> \o col.type.s \o <<")">>
          PrimaryKeyText == <<" ","P","R","I","M","A","R","Y"," ","K","E","Y">>
          EntryText(entry) ==
            entry.key \o <<":", " ">>
            \o (CASE entry.value.t = "null" -> <<"N","U","L","L">>
                  [] entry.value.t = "string" ->
                       <<"\"">> \o JSONescape(entry.value.s) \o <<"\"">>
                  [] entry.value.t = "number" -> NatToString(entry.value.n)
                  [] entry.value.t = "boolean" ->
                       IF entry.value.b THEN <<"t","r","u","e">>
                       ELSE <<"f","a","l","s","e">>)
      IN  /\ PromptIncludes(table.tableName.s)
          /\ \A c \in 1..Len(table.columns) :
               /\ PromptIncludes(ColumnText(table.columns[c]))
               /\ PromptIncludes(ColumnText(table.columns[c]) \o PrimaryKeyText)
                    <=> table.columns[c].key = Str(<<"P","R","I">>)
          /\ Truthy(table.sampleData) =>
               \A e \in 1..Len(table.sampleData.o) :
                 PromptIncludes(EntryText(table.sampleData.o[e]))

\* C30: the prompt of a first attempt (errorMessage undefined) contains no
\* previous-error instruction: the previous-error text is in the prompt
\* exactly when an error message is passed.
C30_PreviousErrorExactlyWhenPassed ==
  LET PreviousErrorTexts ==
        { Lit("The previous attempt on generating SQL query resulting in this error: "),
          Lit("The previous attempt on generating SQL query resulting in this error "),
          Lit("\n\n    Previous Error: "),
          DoNotRepeat }
  IN  prompt # <<>> =>
        (Pieces \cap PreviousErrorTexts # {} <=> args.errorMessage # Undefined)

\* the first execution of an execute request failed
FirstExecutionFailed ==
  \E i \in Indices("query") : Before("query", i) = {} /\ calls[i].kind # "rows"

\* C27: the regenerating server attempts a regeneration only when the execute
\* request carries both schema and question.  When the first execution fails
\* and one of them is missing, generateQuery is not called, no second
\* execution happens and the request is answered {success: false, error}
\* with the message of the first error.
C27_RegenerationNeedsSchemaAndQuestion ==
  (req.endpoint = "execute" /\ server = ServerRegen) =>
    /\ Indices("generateQuery") # {} => (Truthy(req.schema) /\ Truthy(req.question))
    /\ (FirstExecutionFailed /\ ~(Truthy(req.schema) /\ Truthy(req.question))) =>
         /\ pc = "done"
         /\ Indices("generateQuery") = {}
         /\ Cardinality(Indices("query")) = 1
         /\ \E i \in Indices("query") :
              res = <<[status |-> 500,
                       body |-> [success |-> FALSE, error |-> calls[i].message]]>>

C27_FailedWithoutQuestionNotRegenerated ==
  /\ req.endpoint = "execute"
  /\ server = ServerRegen
  /\ Truthy(req.schema)
  /\ ~Truthy(req.question)
  /\ FirstExecutionFailed
  /\ pc = "done"
  /\ Indices("generateQuery") = {}
  /\ Len(res) = 1
  /\ res[1].body.success = FALSE

\* C28: the regeneration call made after a failed execution passes to
\* generateQuery the schema, question, referenceText and chartType of the
\* execute request, and the message of the error of the failed execution;
\* no argument is dropped or moved to another parameter on the way.
C28_RegenerationCallCarriesTheRequest ==
  req.endpoint = "execute" =>
    \A g \in Indices("generateQuery") :
      /\ calls[g].schema = req.schema
      /\ calls[g].question = req.question
      /\ calls[g].errorMessage = Str(extractErrorMessage(queryError))
      /\ calls[g].referenceText = req.referenceText
      /\ calls[g].chartType = req.chartType

\* C29: while one execute request or one schema request is handled, the
\* pool is closed at most once: a pool that testConnection has closed after
\* a failed connectivity probe is not closed again by the handler's cleanup.
C29_PoolClosedAtMostOnce ==
  req.endpoint \in {"execute", "schema"} =>
    /\ pool.ends <= 1
    /\ Cardinality(Indices("end")) <= 1

\* C25: once every upload request is answered, app.locals.referenceText is the
\* text of the document uploaded last among those whose text was extracted
\* (nothing when there is none): rejected and failed uploads do not count.
C25_StoredTextIsOfLatestUpload ==
  LET Answered == {i \in 1..Len(uploads) : uploads[i].pc = "done"}
      Succeeded == {i \in 1..Len(uploads) : uploads[i].status = 200}
      Latest == CHOOSE m \in Succeeded : \A n \in Succeeded : n <= m
  IN  Answered = 1..Len(uploads) =>
        locals = IF Succeeded = {} THEN Undefined ELSE Str(uploads[Latest].file.text)

\* C26: the prompt of a generate-query request is the one its own payload
\* gives, whatever other callers have uploaded before or during it.
C26_PromptFromOwnPayloadAlone ==
  LET PromptsOf(a) ==
        { generatePromptTemplate(t, SchemaInfo(a.service, a.schema), a.question,
                                 a.referenceText, a.chartType, a.errorMessage) :
            t \in Templates(a.service) }
  IN  args # NoArgs =>
        /\ args.referenceText = req.referenceText
        /\ PromptsOf(args) = PromptsOf(GenerateArgs(aiService, req, Undefined))

====
